---- MODULE Spec2Model ----
(***************************************************************************)
(* Model of src/main.py: the daily song-lyric sender for a Vestaboard.     *)
(* One run of main() is a sequential pipeline                              *)
(*   API-key check -> Google Sheets fetch (with fallback) -> random         *)
(*   selection -> VBML compose request -> Vestaboard write request -> exit. *)
(* The environment (environment variables, the spreadsheet, the HTTP        *)
(* responses, the random draw) is chosen nondeterministically from small    *)
(* sets.                                                                    *)
(***************************************************************************)
EXTENDS Integers, Sequences, FiniteSets, TLC

(***************************************************************************)
(* Bounds of the model.                                                    *)
(***************************************************************************)
MaxCols == 2        \* widest row of the modelled worksheet
MaxDataRows == 2    \* most rows after the header row

(***************************************************************************)
(* Python values.  An Optional value is a tagged record so that None, the  *)
(* empty string and the empty list stay distinct, as they are in Python.   *)
(***************************************************************************)
PyNone == [type |-> "none"]
PyStr(s) == [type |-> "str", val |-> s]
PyList(s) == [type |-> "list", val |-> s]
PyInt(n) == [type |-> "int", val |-> n]
PyDict(s) == [type |-> "dict", val |-> s]
PyBool(b) == [type |-> "bool", val |-> b]
Unbound == [type |-> "unbound"]

\* Python truthiness, as used by `if not api_key`, `if lyrics`, `if not all_values`.
Truthy(v) ==
    CASE v.type = "none" -> FALSE
      [] v.type = "str" -> v.val # ""
      [] v.type = "list" -> v.val # <<>>
      [] v.type = "dict" -> v.val # <<>>
      [] v.type = "int" -> v.val # 0
      [] v.type = "bool" -> v.val
      [] OTHER -> FALSE

\* len() is defined for strings, lists and dicts; it raises TypeError otherwise.
HasLen(v) == v.type \in {"str", "list", "dict"}

Range(s) == {s[i] : i \in 1..Len(s)}

(***************************************************************************)
(* Module constants of main.py.                                            *)
(***************************************************************************)
SONG_LYRICS ==
    << "The Beatles - \"All you need is love\"",
       "Bob Dylan - \"The answer is blowin' in the wind\"",
       "Queen - \"Is this the real life? Is this just fantasy?\"",
       "John Lennon - \"Imagine all the people living life in peace\"",
       "Simon & Garfunkel - \"Hello darkness, my old friend\"",
       "David Bowie - \"We can be heroes, just for one day\"",
       "Louis Armstrong - \"What a wonderful world\"",
       "Bill Withers - \"Lean on me, when you're not strong\"",
       "Bob Marley - \"Don't worry about a thing\"",
       "Stevie Wonder - \"I just called to say I love you\"" >>

VBML_COMPOSE_URL == "https://vbml.vestaboard.com/compose"
VESTABOARD_RW_URL == "https://rw.vestaboard.com/"
SHEETS_SCOPE == "https://www.googleapis.com/auth/spreadsheets.readonly"

(***************************************************************************)
(* str.strip(): remove leading and trailing whitespace.                    *)
(***************************************************************************)
IsSpace(c) == c \in {" ", "\t", "\n", "\r"}

RECURSIVE LStrip(_)
LStrip(s) ==
    IF Len(s) = 0 THEN s
    ELSE IF IsSpace(SubSeq(s, 1, 1)) THEN LStrip(SubSeq(s, 2, Len(s)))
    ELSE s

RECURSIVE RStrip(_)
RStrip(s) ==
    IF Len(s) = 0 THEN s
    ELSE IF IsSpace(SubSeq(s, Len(s), Len(s))) THEN RStrip(SubSeq(s, 1, Len(s) - 1))
    ELSE s

Strip(s) == RStrip(LStrip(s))

(***************************************************************************)
(* list.index(x): position (0-based) of the first occurrence, or -1 where  *)
(* Python raises ValueError.                                               *)
(***************************************************************************)
RECURSIVE IndexFrom(_, _, _)
IndexFrom(row, x, i) ==
    IF i > Len(row) THEN 0 - 1
    ELSE IF row[i] = x THEN i - 1
    ELSE IndexFrom(row, x, i + 1)

Index(row, x) == IndexFrom(row, x, 1)

(***************************************************************************)
(* The list comprehension of fetch_lyrics_from_google_sheets:              *)
(*   [row[c] for row in rows if len(row) > c and row[c].strip()]           *)
(* with c the 0-based column index.                                        *)
(***************************************************************************)
\* The comprehension without its strip() test: blank cells are kept.
RECURSIVE ExtractColumn_KeepsBlank(_, _)
ExtractColumn_KeepsBlank(rows, c) ==
    IF rows = <<>> THEN <<>>
    ELSE LET row == Head(rows)
             rest == ExtractColumn_KeepsBlank(Tail(rows), c)
         IN IF Len(row) > c
            THEN <<row[c + 1]>> \o rest
            ELSE rest

RECURSIVE ExtractColumn(_, _)
ExtractColumn(rows, c) ==
    IF rows = <<>> THEN <<>>
    ELSE LET row == Head(rows)
             rest == ExtractColumn(Tail(rows), c)
         IN IF Len(row) > c /\ Strip(row[c + 1]) # ""
            THEN <<row[c + 1]>> \o rest
            ELSE rest

\* Lines 63-83: the value returned for a worksheet whose cells are all_values,
\* with the message printed on the way.
ExtractLyrics(values) ==
    IF values = <<>> THEN [result |-> PyNone, msg |-> "No data found in Google Sheet"]
    ELSE LET headers == values[1]
             formatted_col_index == Index(headers, "formatted")
         IN IF formatted_col_index < 0
            THEN [result |-> PyNone, msg |-> "'formatted' column not found in sheet"]
            ELSE LET found == ExtractColumn(Tail(values), formatted_col_index)
                 IN IF found = <<>>
                    THEN [result |-> PyNone, msg |-> "No lyrics found in 'formatted' column"]
                    ELSE [result |-> PyList(found), msg |-> "Successfully fetched lyrics from Google Sheets"]

(***************************************************************************)
(* get_random_lyric(lyrics), with r the index random.choice draws          *)
(* (0 <= r < len of the list chosen from).                                 *)
(***************************************************************************)
RandomChoice(seq, r) == seq[r + 1]

\* get_random_lyric choosing from the hardcoded list whatever it is given.
GetRandomLyric_IgnoresList(lyrics, r) == RandomChoice(SONG_LYRICS, r)

GetRandomLyric(lyrics, r) ==
    RandomChoice(IF lyrics.type = "none" THEN SONG_LYRICS ELSE lyrics.val, r)

(***************************************************************************)
(* The environment.                                                        *)
(***************************************************************************)
\* os.environ.get(name): None when unset, else the (possibly empty) string.
EnvValues(v) == {PyNone, PyStr(""), PyStr(v)}

\* Worksheets that worksheet.get_all_values() can return: a list of rows,
\* the first of which is the header row.
\* Rows need not all have the same length.  Each cell after the header row is
\* either blank (empty, or whitespace only) or holds the text of its row.
HeaderCells == {"formatted", "title"}
RowsOver(cells) == UNION {[1..n -> cells] : n \in 0..MaxCols}
SampleLyrics == <<"a", " b", "c ">>
SampleLyric(i) == SampleLyrics[((i - 1) % Len(SampleLyrics)) + 1]
Blank(i, j) == IF (i + j) % 2 = 0 THEN "" ELSE " "
\* The data rows in which exactly the cells marked in filled hold text.
DataRows(filled) ==
    [i \in 1..Len(filled) |->
        [j \in 1..Len(filled[i]) |-> IF filled[i][j] THEN SampleLyric(i) ELSE Blank(i, j)]]

\* What comes back from requests.post: an exception raised by the transport,
\* or a response with a status code and a body.  The body is given by what
\* response.json() makes of it: Undecodable, or the decoded JSON value.
Undecodable == [type |-> "undecodable"]
JsonBodies ==
    { Undecodable,
      PyNone,
      PyInt(7),
      PyStr("ok"),
      PyDict(<<>>),
      PyList(<<>>),
      PyList(<< <<1, 2>>, <<3, 4>> >>),
      PyList(<< <<1>>, <<2, 3, 999>> >>) }
StatusCodes == {200, 304, 404, 500}
HttpOutcomes ==
    { [kind |-> "ConnectionError", status |-> 0, body |-> Undecodable],
      [kind |-> "Timeout", status |-> 0, body |-> Undecodable] }
    \cup { [kind |-> "response", status |-> s, body |-> b] : s \in StatusCodes, b \in JsonBodies }

\* response.raise_for_status() raises HTTPError for 4xx and 5xx statuses.
RaisesForStatus(status) == status >= 400 /\ status < 600

(***************************************************************************)
(* State of one run of main().                                             *)
(***************************************************************************)
VARIABLES
    pc,                \* position of the run in main()
    api_key,           \* VESTABOARD_API_KEY
    sheet_id,          \* GOOGLE_SHEET_ID
    creds_file,        \* GOOGLE_CREDENTIALS_FILE
    all_values,        \* local of fetch_lyrics_from_google_sheets
    lyrics,            \* main's candidate list
    lyric,             \* the selected lyric
    character_codes,   \* result of format_lyric_with_vbml
    success,           \* result of send_to_vestaboard
    exit_status,       \* <<>> while running, <<code>> once the process has exited
    stdout,            \* messages printed to standard output
    stderr,            \* messages printed to standard error
    trace              \* what the run did with its environment, in order: the
                       \* credentials load, each outbound request and its
                       \* outcome, and the selection

vars == <<pc, api_key, sheet_id, creds_file, all_values, lyrics, lyric,
          character_codes, success, exit_status, stdout, stderr, trace>>

env == <<api_key, sheet_id, creds_file>>

Init ==
    /\ pc = "main"
    /\ api_key \in EnvValues("rw-key")
    /\ sheet_id \in EnvValues("sheet-1")
    /\ creds_file \in EnvValues("creds.json")
    /\ all_values = Unbound
    /\ lyrics = Unbound
    /\ lyric = Unbound
    /\ character_codes = Unbound
    /\ success = Unbound
    /\ exit_status = <<>>
    /\ stdout = <<>>
    /\ stderr = <<>>
    /\ trace = <<>>

Request(url, body) == [ev |-> "request", url |-> url, data |-> body]
Response(url, outcome) == [ev |-> "response", url |-> url, data |-> outcome]
Selected(s) == [ev |-> "select", url |-> "", data |-> s]
Credentials(file, ok) == [ev |-> "credentials", url |-> file, data |-> ok]

\* sys.exit(code)
SysExit(code) ==
    /\ pc' = "exited"
    /\ exit_status' = <<code>>

\* An exception nothing catches: the interpreter prints the traceback and
\* the process ends with status 1.
Uncaught(exc) ==
    /\ stderr' = Append(stderr, "Traceback: " \o exc)
    /\ SysExit(1)

\* The key check as `if api_key is None`: an empty key passes.
MainCheckApiKey_NoneOnly ==
    /\ pc = "main"
    /\ IF api_key = PyNone
       THEN /\ stderr' = Append(stderr, "Error: VESTABOARD_API_KEY environment variable not set")
            /\ SysExit(1)
       ELSE /\ pc' = "fetch_config"
            /\ UNCHANGED <<stderr, exit_status>>
    /\ UNCHANGED <<env, all_values, lyrics, lyric, character_codes, success, stdout, trace>>

(***************************************************************************)
(* main(), lines 175-179.                                                  *)
(***************************************************************************)
MainCheckApiKey ==
    /\ pc = "main"
    /\ IF ~Truthy(api_key)
       THEN /\ stderr' = Append(stderr, "Error: VESTABOARD_API_KEY environment variable not set")
            /\ SysExit(1)
       ELSE /\ pc' = "fetch_config"
            /\ UNCHANGED <<stderr, exit_status>>
    /\ UNCHANGED <<env, all_values, lyrics, lyric, character_codes, success, stdout, trace>>

(***************************************************************************)
(* fetch_lyrics_from_google_sheets(), called from main() at line 182.      *)
(* Every exception raised inside it is caught at line 85 and turned into   *)
(* a None result.                                                          *)
(***************************************************************************)
\* return None, from one of the `return None` statements or the except clause
FetchReturnsNone ==
    /\ lyrics' = PyNone
    /\ pc' = "main_lyrics"

\* except Exception as e (lines 85-87)
FetchCaught ==
    /\ stderr' = Append(stderr, "Error fetching lyrics from Google Sheets")
    /\ FetchReturnsNone

\* Lines 44-49: the configuration variables.
FetchConfig ==
    /\ pc = "fetch_config"
    /\ IF ~Truthy(sheet_id) \/ ~Truthy(creds_file)
       THEN /\ stdout' = Append(stdout, "Google Sheets not configured")
            /\ FetchReturnsNone
       ELSE /\ pc' = "fetch_auth"
            /\ UNCHANGED <<stdout, lyrics>>
    /\ UNCHANGED <<env, all_values, lyric, character_codes, success, exit_status, stderr, trace>>

\* Lines 52-54: the credentials are read from the local file; a missing or
\* malformed file raises.
FetchAuth ==
    /\ pc = "fetch_auth"
    /\ \E ok \in BOOLEAN :
         /\ trace' = Append(trace, Credentials(creds_file.val, ok))
         /\ IF ok
            THEN /\ pc' = "fetch_open"
                 /\ UNCHANGED <<stderr, lyrics>>
            ELSE FetchCaught
    /\ UNCHANGED <<env, all_values, lyric, character_codes, success, exit_status, stdout>>

\* A call into the Google Sheets API: the request goes out, and it either
\* answers or raises (network or authentication error, missing spreadsheet,
\* missing tab).
SheetsCall(what, next) ==
    \E ok \in BOOLEAN :
      /\ trace' = trace \o <<Request(SHEETS_SCOPE, what), Response(SHEETS_SCOPE, ok)>>
      /\ IF ok
         THEN /\ pc' = next
              /\ UNCHANGED <<stderr, lyrics>>
         ELSE FetchCaught

\* Line 57: client.open_by_key(sheet_id)
FetchOpen ==
    /\ pc = "fetch_open"
    /\ SheetsCall("open_by_key", "fetch_worksheet")
    /\ UNCHANGED <<env, all_values, lyric, character_codes, success, exit_status, stdout>>

\* Line 58: sheet.worksheet("lyrics")
FetchWorksheet ==
    /\ pc = "fetch_worksheet"
    /\ SheetsCall("worksheet", "fetch_get_all_values")
    /\ UNCHANGED <<env, all_values, lyric, character_codes, success, exit_status, stdout>>

\* Line 61: worksheet.get_all_values()
FetchGetAllValues ==
    /\ pc = "fetch_get_all_values"
    /\ SheetsCall("get_all_values", "fetch_extract")
    /\ IF pc' = "fetch_extract"
       THEN \/ all_values' = PyList(<<>>)
            \/ \E h \in RowsOver(HeaderCells), n \in 0..MaxDataRows :
                 \E filled \in [1..n -> RowsOver(BOOLEAN)] :
                   all_values' = PyList(<<h>> \o DataRows(filled))
       ELSE UNCHANGED all_values
    /\ UNCHANGED <<env, lyric, character_codes, success, exit_status, stdout>>

\* Lines 63-83: find the column, extract it, return.
FetchExtract ==
    /\ pc = "fetch_extract"
    /\ LET r == ExtractLyrics(all_values.val)
       IN /\ stdout' = Append(stdout, r.msg)
          /\ lyrics' = r.result
    /\ pc' = "main_lyrics"
    /\ UNCHANGED <<env, all_values, lyric, character_codes, success, exit_status, stderr, trace>>

\* main() giving up when the fetch returned nothing, instead of falling back.
MainUseLyrics_ExitOnNone ==
    /\ pc = "main_lyrics"
    /\ IF Truthy(lyrics)
       THEN /\ stdout' = Append(stdout, "Using lyrics from Google Sheets")
            /\ pc' = "select"
            /\ UNCHANGED <<stderr, exit_status>>
       ELSE /\ stderr' = Append(stderr, "No lyrics available. Exiting.")
            /\ SysExit(1)
            /\ UNCHANGED stdout
    /\ all_values' = Unbound
    /\ UNCHANGED <<env, lyrics, lyric, character_codes, success, trace>>

(***************************************************************************)
(* main(), lines 184-188: use the fetched list, or fall back.              *)
(***************************************************************************)
MainUseLyrics ==
    /\ pc = "main_lyrics"
    /\ IF Truthy(lyrics)
       THEN /\ stdout' = Append(stdout, "Using lyrics from Google Sheets")
            /\ UNCHANGED lyrics
       ELSE /\ stdout' = Append(stdout, "Using fallback hardcoded lyrics")
            /\ lyrics' = PyList(SONG_LYRICS)
    /\ all_values' = Unbound
    /\ pc' = "select"
    /\ UNCHANGED <<env, lyric, character_codes, success, exit_status, stderr, trace>>

(***************************************************************************)
(* main(), lines 190-194: lyric = get_random_lyric(lyrics).                *)
(* random.choice raises IndexError on an empty list.                       *)
(***************************************************************************)
SelectLyric ==
    /\ pc = "select"
    /\ LET from == IF lyrics.type = "none" THEN SONG_LYRICS ELSE lyrics.val
       IN IF from = <<>>
          THEN /\ Uncaught("IndexError")
               /\ UNCHANGED <<lyric, stdout, trace>>
          ELSE \E r \in 0..(Len(from) - 1) :
                 /\ lyric' = PyStr(GetRandomLyric(lyrics, r))
                 /\ stdout' = Append(stdout, "Selected lyric")
                 /\ trace' = Append(trace, Selected(lyric'.val))
                 /\ pc' = "format"
                 /\ UNCHANGED <<stderr, exit_status>>
    /\ UNCHANGED <<env, all_values, lyrics, character_codes, success>>

(***************************************************************************)
(* format_lyric_with_vbml(lyric, api_key), called from main() at line 197. *)
(***************************************************************************)
Headers(key) == [XVestaboardReadWriteKey |-> key.val, ContentType |-> "application/json"]

\* The payload with the lyric trimmed on the way.
Payload_Stripped(text) ==
    [components |-> << [style |-> [justify |-> "center", align |-> "left"],
                        template |-> Strip(text)] >>]

\* Lines 113-123: the payload built around the lyric.
Payload(text) ==
    [components |-> << [style |-> [justify |-> "center", align |-> "left"],
                        template |-> text] >>]

\* Lines 127-138: the outcomes of the POST for which an exception leaves
\* format_lyric_with_vbml, the except clause catching RequestException only.
\* A body that does not decode raises requests' JSONDecodeError, which is a
\* RequestException in requests 2.27 and later and a plain ValueError
\* before: caught tells which.  len() of a decoded null, number or boolean
\* raises TypeError.
FormatRaises(o, caught) ==
    /\ o.kind = "response"
    /\ ~RaisesForStatus(o.status)
    /\ \/ o.body = Undecodable /\ ~caught
       \/ o.body # Undecodable /\ ~HasLen(o.body)

\* Lines 127-138: the value format_lyric_with_vbml returns otherwise.
FormatResult(o, caught) ==
    IF o.kind # "response" THEN PyNone
    ELSE IF RaisesForStatus(o.status) THEN PyNone
    ELSE IF o.body = Undecodable THEN PyNone
    ELSE o.body

\* Lines 134-137: what the except clause prints.
ErrorLog(what, o) ==
    IF o.kind = "response" /\ RaisesForStatus(o.status)
    THEN <<what, "Response: text">>
    ELSE <<what>>

FormatLyricWithVbml ==
    /\ pc = "format"
    /\ stdout' = Append(stdout, "Formatting lyric with VBML")
    /\ \E o \in HttpOutcomes, caught \in BOOLEAN :
         /\ trace' = trace \o << Request(VBML_COMPOSE_URL, [headers |-> Headers(api_key), json |-> Payload(lyric.val)]),
                                 Response(VBML_COMPOSE_URL, o) >>
         /\ IF FormatRaises(o, caught)
            THEN /\ Uncaught(IF o.body = Undecodable THEN "ValueError" ELSE "TypeError")
                 /\ UNCHANGED character_codes
            ELSE /\ character_codes' = FormatResult(o, caught)
                 /\ stderr' = IF character_codes'.type = "none"
                              THEN stderr \o ErrorLog("Error formatting lyric with VBML", o)
                              ELSE stderr
                 /\ pc' = "main_check_format"
                 /\ UNCHANGED exit_status
    /\ UNCHANGED <<env, all_values, lyrics, lyric, success>>

\* main() without the exit on a failed formatting call.
MainCheckFormat_NoExit ==
    /\ pc = "main_check_format"
    /\ stderr' = IF character_codes.type = "none"
                 THEN Append(stderr, "Failed to format lyric.")
                 ELSE stderr
    /\ pc' = "send"
    /\ UNCHANGED <<env, all_values, lyrics, lyric, character_codes, success, exit_status, stdout, trace>>

\* main(), lines 199-201.
MainCheckFormat ==
    /\ pc = "main_check_format"
    /\ IF character_codes.type = "none"
       THEN /\ stderr' = Append(stderr, "Failed to format lyric. Exiting.")
            /\ SysExit(1)
       ELSE /\ pc' = "send"
            /\ UNCHANGED <<stderr, exit_status>>
    /\ UNCHANGED <<env, all_values, lyrics, lyric, character_codes, success, stdout, trace>>

(***************************************************************************)
(* send_to_vestaboard(character_codes, api_key), called at line 204.       *)
(***************************************************************************)
\* send_to_vestaboard without raise_for_status(): any response counts.
SendResult_IgnoresStatus(o) == o.kind = "response"

\* Lines 157-169: True unless the POST raised; the response body is not read.
SendResult(o) == o.kind = "response" /\ ~RaisesForStatus(o.status)

SendToVestaboard ==
    /\ pc = "send"
    /\ \E o \in HttpOutcomes :
         /\ trace' = trace \o << Request(VESTABOARD_RW_URL, [headers |-> Headers(api_key), json |-> character_codes]),
                                 Response(VESTABOARD_RW_URL, o) >>
         /\ success' = PyBool(SendResult(o))
         /\ IF success'.val
            THEN /\ stdout' = stdout \o <<"Sending message to Vestaboard...", "Successfully sent message to Vestaboard!">>
                 /\ UNCHANGED stderr
            ELSE /\ stdout' = Append(stdout, "Sending message to Vestaboard...")
                 /\ stderr' = stderr \o ErrorLog("Error sending message to Vestaboard", o)
    /\ pc' = "main_check_send"
    /\ UNCHANGED <<env, all_values, lyrics, lyric, character_codes, exit_status>>

\* main() trying the write again when it failed.
MainCheckSend_Retry ==
    /\ pc = "main_check_send"
    /\ IF ~success.val
       THEN /\ stderr' = Append(stderr, "Failed to send message to Vestaboard. Retrying.")
            /\ pc' = "send"
            /\ UNCHANGED <<stdout, exit_status>>
       ELSE /\ stdout' = Append(stdout, "Daily lyric successfully sent to Vestaboard!")
            /\ SysExit(0)
            /\ UNCHANGED stderr
    /\ UNCHANGED <<env, all_values, lyrics, lyric, character_codes, success, trace>>

\* main() without the exit on a failed write.
MainCheckSend_NoExit ==
    /\ pc = "main_check_send"
    /\ stderr' = IF ~success.val
                 THEN Append(stderr, "Failed to send message to Vestaboard.")
                 ELSE stderr
    /\ stdout' = Append(stdout, "Daily lyric successfully sent to Vestaboard!")
    /\ SysExit(0)
    /\ UNCHANGED <<env, all_values, lyrics, lyric, character_codes, success, trace>>

\* main(), lines 206-210; returning from main ends the process with status 0.
MainCheckSend ==
    /\ pc = "main_check_send"
    /\ IF ~success.val
       THEN /\ stderr' = Append(stderr, "Failed to send message to Vestaboard. Exiting.")
            /\ SysExit(1)
            /\ UNCHANGED stdout
       ELSE /\ stdout' = Append(stdout, "Daily lyric successfully sent to Vestaboard!")
            /\ SysExit(0)
            /\ UNCHANGED stderr
    /\ UNCHANGED <<env, all_values, lyrics, lyric, character_codes, success, trace>>

Next ==
    \/ MainCheckApiKey
    \/ FetchConfig
    \/ FetchAuth
    \/ FetchOpen
    \/ FetchWorksheet
    \/ FetchGetAllValues
    \/ FetchExtract
    \/ MainUseLyrics
    \/ SelectLyric
    \/ FormatLyricWithVbml
    \/ MainCheckFormat
    \/ SendToVestaboard
    \/ MainCheckSend

Spec == Init /\ [][Next]_vars

TypeOK ==
    /\ pc \in {"main", "fetch_config", "fetch_auth", "fetch_open", "fetch_worksheet",
               "fetch_get_all_values", "fetch_extract", "main_lyrics", "select",
               "format", "main_check_format", "send", "main_check_send", "exited"}
    /\ exit_status \in {<<>>, <<0>>, <<1>>}
    /\ (pc = "exited") <=> (exit_status # <<>>)

(***************************************************************************)
(* Reading the trace.                                                      *)
(***************************************************************************)
RequestsTo(url) == {i \in 1..Len(trace) : trace[i].ev = "request" /\ trace[i].url = url}
ResponsesFrom(url) == {i \in 1..Len(trace) : trace[i].ev = "response" /\ trace[i].url = url}
AllRequests == {i \in 1..Len(trace) : trace[i].ev = "request"}
Selections == {i \in 1..Len(trace) : trace[i].ev = "select"}

\* The formatting endpoint answered with something format_lyric_with_vbml can
\* return: a response that is not an HTTP error and whose body decodes to a
\* JSON value that has a length.
ReturnedResult(o) ==
    /\ o.kind = "response"
    /\ o.status < 400
    /\ o.body.type \in {"str", "list", "dict"}

\* The write endpoint answered with a response that is not an HTTP error.
WriteSucceeded(o) == o.kind = "response" /\ o.status < 400

Exited == pc = "exited"

(***************************************************************************)
(* C1: in every run the steps happen in the order select -> format ->      *)
(* write: a request to the formatting endpoint is preceded by the          *)
(* selection of a lyric, a request to the write endpoint is preceded by a  *)
(* formatting request of the same run whose response carried a result,     *)
(* and a run whose formatting call failed never calls the write endpoint.  *)
(***************************************************************************)
C1_SelectFormatWriteOrder ==
    /\ \A i \in RequestsTo(VBML_COMPOSE_URL) : \E j \in Selections : j < i
    /\ \A i \in RequestsTo(VESTABOARD_RW_URL) :
         \E j \in RequestsTo(VBML_COMPOSE_URL) :
           /\ j + 1 < i
           /\ j + 1 \in ResponsesFrom(VBML_COMPOSE_URL)
           /\ ReturnedResult(trace[j + 1].data)
    /\ (\E j \in ResponsesFrom(VBML_COMPOSE_URL) : ~ReturnedResult(trace[j].data))
         => RequestsTo(VESTABOARD_RW_URL) = {}

\* A run that went through all three steps.
C1_Witness ==
    /\ Exited
    /\ Selections # {}
    /\ RequestsTo(VBML_COMPOSE_URL) # {}
    /\ RequestsTo(VESTABOARD_RW_URL) # {}

(***************************************************************************)
(* C4 as stated: over the whole run at most two outbound network requests  *)
(* are issued, counting all of them.                                       *)
(***************************************************************************)
C4_AtMostTwoRequestsInAll == Cardinality(AllRequests) <= 2

(***************************************************************************)
(* C4, amended: every run issues at most one request to the formatting     *)
(* endpoint and at most one to the write endpoint, neither repeated nor    *)
(* retried, the formatting request first; these are the only outbound      *)
(* requests of a run in which the spreadsheet is not configured, and a     *)
(* configured spreadsheet fetch adds its own requests before them.         *)
(***************************************************************************)
C4_AtMostOneRequestPerEndpoint ==
    /\ Cardinality(RequestsTo(VBML_COMPOSE_URL)) <= 1
    /\ Cardinality(RequestsTo(VESTABOARD_RW_URL)) <= 1
    /\ \A i \in RequestsTo(SHEETS_SCOPE) :
         \A j \in RequestsTo(VBML_COMPOSE_URL) \cup RequestsTo(VESTABOARD_RW_URL) : i < j
    /\ (~Truthy(sheet_id) \/ ~Truthy(creds_file)) =>
         /\ Cardinality(AllRequests) <= 2
         /\ RequestsTo(SHEETS_SCOPE) = {}

\* A finished run that fetched the spreadsheet and called both endpoints.
C4_Witness ==
    /\ Exited
    /\ Cardinality(RequestsTo(SHEETS_SCOPE)) >= 1
    /\ Cardinality(RequestsTo(VBML_COMPOSE_URL)) = 1
    /\ Cardinality(RequestsTo(VESTABOARD_RW_URL)) = 1

(***************************************************************************)
(* C7: the body sent to the write endpoint is exactly the value the        *)
(* formatting endpoint returned in the same run, whatever its dimensions   *)
(* and codes, and the text sent to the formatter is exactly the selected   *)
(* lyric.                                                                  *)
(***************************************************************************)
C7_GridPassedThroughUnchanged ==
    /\ \A i \in RequestsTo(VBML_COMPOSE_URL) :
         /\ Len(trace[i].data.json.components) = 1
         /\ trace[i].data.json.components[1].template = lyric.val
         /\ \E j \in Selections : j < i /\ trace[j].data = trace[i].data.json.components[1].template
    /\ \A i \in RequestsTo(VESTABOARD_RW_URL) :
         \E j \in ResponsesFrom(VBML_COMPOSE_URL) :
           /\ j < i
           /\ trace[i].data.json = trace[j].data.body

\* A ragged grid holding an out-of-range code went to the board as it came.
C7_Witness ==
    \E i \in RequestsTo(VESTABOARD_RW_URL) :
      trace[i].data.json = PyList(<< <<1>>, <<2, 3, 999>> >>)

(***************************************************************************)
(* C8: if VESTABOARD_API_KEY is unset or empty, main() exits with status 1 *)
(* before anything else: no spreadsheet fetch, no selection, no request.   *)
(***************************************************************************)
C8_NoApiKeyExitsFirst ==
    (~Truthy(api_key) /\ pc # "main") =>
        /\ Exited
        /\ exit_status = <<1>>
        /\ trace = <<>>
        /\ stdout = <<>>
        /\ lyrics = Unbound
        /\ lyric = Unbound
        /\ character_codes = Unbound

C8_Witness == Exited /\ api_key = PyStr("") /\ exit_status = <<1>>

(***************************************************************************)
(* C2 as stated: if the request to the formatting endpoint or to the write *)
(* endpoint fails -- connection error, timeout, non-2xx status or          *)
(* undecodable response body -- the process logs the failure and exits     *)
(* with a nonzero status.                                                  *)
(***************************************************************************)
FailedAsStated(o) ==
    \/ o.kind \in {"ConnectionError", "Timeout"}
    \/ o.kind = "response" /\ (o.status < 200 \/ o.status > 299 \/ o.body = Undecodable)

C2_FailedCallExitsNonzero_AsStated ==
    (Exited /\ \E i \in ResponsesFrom(VBML_COMPOSE_URL) \cup ResponsesFrom(VESTABOARD_RW_URL) :
                 FailedAsStated(trace[i].data))
      => (exit_status = <<1>> /\ stderr # <<>>)

(***************************************************************************)
(* C2, amended: if the request to the formatting endpoint or to the write  *)
(* endpoint fails -- connection error, timeout, a 4xx or 5xx status, or,   *)
(* for the formatting endpoint, an undecodable response body -- the        *)
(* process logs the failure and exits with a nonzero status.               *)
(***************************************************************************)
Failed(url, o) ==
    \/ o.kind \in {"ConnectionError", "Timeout"}
    \/ o.kind = "response" /\ o.status >= 400 /\ o.status <= 599
    \/ o.kind = "response" /\ url = VBML_COMPOSE_URL /\ o.body = Undecodable

C2_FailedCallExitsNonzero ==
    (Exited /\ \E i \in ResponsesFrom(VBML_COMPOSE_URL) \cup ResponsesFrom(VESTABOARD_RW_URL) :
                 Failed(trace[i].url, trace[i].data))
      => (exit_status = <<1>> /\ stderr # <<>>)

\* The formatting call went through and the write was refused with a 500.
C2_Witness ==
    /\ Exited
    /\ \E i \in ResponsesFrom(VESTABOARD_RW_URL) :
         trace[i].data.kind = "response" /\ trace[i].data.status = 500

(***************************************************************************)
(* C10: every run of main() terminates, with status 0 and the success      *)
(* message printed if and only if the API key was set, the formatting call *)
(* returned a result and the write call then succeeded, and with a nonzero *)
(* status in every other case.                                             *)
(***************************************************************************)
RunSucceeded ==
    /\ Truthy(api_key)
    /\ \E i \in ResponsesFrom(VBML_COMPOSE_URL) : ReturnedResult(trace[i].data)
    /\ \E i \in ResponsesFrom(VESTABOARD_RW_URL) : WriteSucceeded(trace[i].data)

SuccessPrinted == \E k \in 1..Len(stdout) : stdout[k] = "Daily lyric successfully sent to Vestaboard!"

\* The positions of main(), in the order the run passes them.  A run
\* terminates because every step moves it to a later position and, short of
\* the exit, there is always a step to take.
PipelineOrder ==
    << "main", "fetch_config", "fetch_auth", "fetch_open", "fetch_worksheet",
       "fetch_get_all_values", "fetch_extract", "main_lyrics", "select",
       "format", "main_check_format", "send", "main_check_send", "exited" >>

Rank(p) == CHOOSE i \in 1..Len(PipelineOrder) : PipelineOrder[i] = p

C10_TerminatesSuccessIff ==
    /\ [][Rank(pc') > Rank(pc)]_vars
    /\ [](~Exited => ENABLED Next)
    /\ [](Exited => /\ exit_status \in {<<0>>, <<1>>}
                    /\ (exit_status = <<0>>) <=> RunSucceeded
                    /\ (exit_status = <<0>>) <=> SuccessPrinted)

C10_Witness == Exited /\ exit_status = <<0>> /\ RunSucceeded

(***************************************************************************)
(* What the 'formatted' column of a worksheet holds, stated over the rows  *)
(* of the sheet rather than by the loop that extracts it.                  *)
(***************************************************************************)
WhitespaceOnly(s) == \A k \in 1..Len(s) : SubSeq(s, k, k) \in {" ", "\t", "\n", "\r"}

HasFormatted(header) == \E c \in 1..Len(header) : header[c] = "formatted"

\* The column (1-based) of the first header cell that reads 'formatted'.
FormattedColumn(header) ==
    CHOOSE c \in 1..Len(header) :
      header[c] = "formatted" /\ \A d \in 1..(c - 1) : header[d] # "formatted"

\* The rows after the header that reach the column and hold a non-blank value.
QualifyingRows(v) ==
    LET col == FormattedColumn(v[1])
    IN {i \in 2..Len(v) : Len(v[i]) >= col /\ ~WhitespaceOnly(v[i][col])}

KthSmallest(Q, k) == CHOOSE i \in Q : Cardinality({j \in Q : j < i}) = k - 1

ExpectedLyrics(v) ==
    LET col == FormattedColumn(v[1])
        Q == QualifyingRows(v)
    IN [k \in 1..Cardinality(Q) |-> v[KthSmallest(Q, k)][col]]

SheetUnusable(v) ==
    \/ v = <<>>
    \/ ~HasFormatted(v[1])
    \/ QualifyingRows(v) = {}

(***************************************************************************)
(* C9: fetch_lyrics_from_google_sheets returns either None or a non-empty  *)
(* list, never an empty list; a returned list equals, in row order, the    *)
(* values of the 'formatted' column of the rows after the header that are  *)
(* long enough to have the column and whose value is not whitespace-only;  *)
(* main() never makes a random choice over an empty list.                  *)
(***************************************************************************)
C9_FetchReturnsNoneOrNonEmptyColumn ==
    /\ pc = "main_lyrics" =>
         \/ lyrics = PyNone
         \/ lyrics.type = "list" /\ lyrics.val # <<>>
    /\ (pc = "main_lyrics" /\ lyrics.type = "list") =>
         /\ all_values.type = "list"
         /\ ~SheetUnusable(all_values.val)
         /\ lyrics.val = ExpectedLyrics(all_values.val)
    /\ pc = "select" => (lyrics.type = "list" /\ lyrics.val # <<>>)
    /\ \A k \in 1..Len(stderr) : stderr[k] # "Traceback: IndexError"

\* The fetch returned a list that left out a blank row of the sheet.
C9_Witness ==
    /\ pc = "main_lyrics"
    /\ lyrics.type = "list"
    /\ Len(lyrics.val) + 1 < Len(all_values.val)

(***************************************************************************)
(* C3: on any failure of the spreadsheet fetch -- a configuration variable *)
(* missing, an authentication or network error, a missing 'lyrics' tab,    *)
(* an empty sheet, no 'formatted' header, no non-blank entries -- the run  *)
(* does not exit: it falls back to the hardcoded list of ten lyrics,       *)
(* selects from that list and goes on to the format step, and from there   *)
(* to the write step as in any run.                                        *)
(***************************************************************************)
\* The step being taken is one at which the fetch fails.
FetchFailsNow ==
    \/ pc = "fetch_config" /\ (sheet_id \in {PyNone, PyStr("")} \/ creds_file \in {PyNone, PyStr("")})
    \/ /\ pc \in {"fetch_auth", "fetch_open", "fetch_worksheet", "fetch_get_all_values"}
       /\ trace' # trace
       /\ trace'[Len(trace')].data = FALSE
    \/ pc = "fetch_extract" /\ SheetUnusable(all_values.val)

FallbackAnnounced == \E k \in 1..Len(stdout) : stdout[k] = "Using fallback hardcoded lyrics"

C3_FetchFailureFallsBack ==
    /\ [][FetchFailsNow => (pc' = "main_lyrics" /\ lyrics' = PyNone /\ exit_status' = <<>>)]_vars
    /\ [][(pc = "main_lyrics" /\ lyrics = PyNone) =>
            (pc' = "select" /\ lyrics' = PyList(SONG_LYRICS) /\ exit_status' = <<>> /\ FallbackAnnounced')]_vars
    /\ [](FallbackAnnounced =>
            /\ lyrics = PyList(SONG_LYRICS)
            /\ Len(SONG_LYRICS) = 10
            /\ pc # "select" => (lyric.type = "str" /\ lyric.val \in Range(SONG_LYRICS))
            /\ pc \notin {"select", "format"} =>
                 \E i \in RequestsTo(VBML_COMPOSE_URL) : trace[i].data.json.components[1].template = lyric.val
            /\ Exited =>
                 ((RequestsTo(VESTABOARD_RW_URL) # {})
                    <=> \E j \in ResponsesFrom(VBML_COMPOSE_URL) : ReturnedResult(trace[j].data)))

\* The spreadsheet was configured, the fetch failed, and the run went on to
\* send one of the ten hardcoded lyrics to the board.
C3_Witness ==
    /\ Truthy(sheet_id) /\ Truthy(creds_file)
    /\ FallbackAnnounced
    /\ Exited
    /\ exit_status = <<0>>
    /\ RequestsTo(VESTABOARD_RW_URL) # {}

(***************************************************************************)
(* C5: the string selected in a run is an element of the candidate list in *)
(* use for that run: the list the spreadsheet fetch returned when it       *)
(* returned a list, and otherwise the fixed list of ten strings;           *)
(* get_random_lyric called with None selects from the fixed ten.           *)
(***************************************************************************)
C5_SelectedFromListInUse ==
    /\ [][pc = "main_lyrics" =>
            lyrics' = (IF lyrics.type = "list" THEN lyrics ELSE PyList(SONG_LYRICS))]_vars
    /\ [][pc = "select" => (lyrics' = lyrics /\ (lyric'.type = "str" => lyric'.val \in Range(lyrics.val)))]_vars
    /\ [](lyric.type = "str" =>
            /\ lyrics.type = "list"
            /\ lyric.val \in Range(lyrics.val)
            /\ \E j \in Selections : trace[j].data = lyric.val)
    /\ [](/\ Cardinality(Range(SONG_LYRICS)) = 10
          /\ \A r \in 0..(Len(SONG_LYRICS) - 1) : GetRandomLyric(PyNone, r) \in Range(SONG_LYRICS))

\* A lyric was selected from a list fetched from the spreadsheet.
C5_Witness ==
    /\ lyric.type = "str"
    /\ lyrics.type = "list"
    /\ lyrics.val # SONG_LYRICS
    /\ Len(lyrics.val) = 2

====
